---- MODULE Spec2Model ----
(***************************************************************************)
(* duckietown-intnav: the localization node's tag_callback                 *)
(* (ros-intnav/nodes/localization.py) and the pure pursuit controller's    *)
(* goal point selection and wheel speeds (lib-intnav/.../controller.py),   *)
(* and the intersection map's pre-rendered visualization                   *)
(* (lib-intnav/.../imap.py).                                               *)
(*                                                                         *)
(* Abstractions.                                                           *)
(*  - A pose estimate (x, y, theta) obtained from the TF tree is one of    *)
(*    two labels: tag_callback never inspects a pose estimate, it only     *)
(*    copies it into self.inits or into z, so two distinguishable values   *)
(*    tell any two detections of a message apart.  A detection is          *)
(*    modelled by the outcome of its lookupTransform call: TfException     *)
(*    or the pose estimate it yields.                                      *)
(*  - rospy.get_time() is an integer clock `now` that never runs           *)
(*    backwards; it may stand still between two reads (simulated time).    *)
(*  - The KalmanFilter class (duckietown_intnav.kalman) is not part of     *)
(*    the sources; only the calls the node makes on it are modelled: its   *)
(*    construction and process(z, ..., dt).                                *)
(*  - Waypoints lie on an integer grid; Euclidean distances are compared   *)
(*    through their squares, which preserves every <, = and min/max the    *)
(*    controller computes on them.                                         *)
(*  - The heading is a whole number of quarter turns, so that its sine and *)
(*    cosine are integers; radius, angular rate and wheel speeds are exact *)
(*    fractions <<numerator, denominator>>, a zero denominator standing    *)
(*    for the inf or nan numpy yields on a division by zero.  Speeds are   *)
(*    in units of vel.                                                     *)
(*  - Map lengths are whole millimetres.  IMap._pre_image is the overlay   *)
(*    painted on top of the copy of self.data that visualize_init makes    *)
(*    (map cells and coordinate system): a function from the painted       *)
(*    pixels to their value, empty right after visualize_init.             *)
(***************************************************************************)
EXTENDS Integers, Sequences, FiniteSets

VARIABLES
    kalman,              \* self.kalman: None or the KalmanFilter object
    inits,               \* self.inits: buffered pose estimates
    num_init_estimates,  \* self.num_init_estimates (launch parameter)
    last_update_time,    \* self.last_update_time: NoTime or a clock value
    traj,                \* number of poses in self.traj.poses
    now,                 \* the clock rospy.get_time() reads
    last,                \* record of the latest tag_callback invocation
    invoked,             \* clock value at which the filter was last called
                         \* (constructed or processed); NoTime before
    pose,                \* pure_pursuit argument: current position (x, y)
    path,                \* pure_pursuit argument: sequence of waypoints
    la_dis,              \* pure_pursuit argument: look ahead distance
    thetha,              \* pure_pursuit argument: heading, in quarter turns
    wheel_distance,      \* pure_pursuit argument: baseline
    out,                 \* outcome of the pure_pursuit call
    pre_image,           \* IMap._pre_image: painted pixels and their values
    pre_path,            \* IMap._pre_path
    pre_trajectory,      \* IMap._pre_trajectory
    vis_point_rad,       \* IMap._vis_point_rad, in pixels
    req_path,            \* the path most recently passed to visualize_add_path
    req_trajectory,      \* the trajectory most recently passed to
                         \* visualize_add_trajectory
    vis                  \* record of the latest visualize_add_* call

vars == <<kalman, inits, num_init_estimates, last_update_time, traj, now,
          last, invoked, pose, path, la_dis, thetha, wheel_distance, out,
          pre_image, pre_path, pre_trajectory, vis_point_rad, req_path,
          req_trajectory, vis>>

nodeVars == <<kalman, inits, num_init_estimates, last_update_time, traj, now,
              last, invoked>>
ctrlVars == <<pose, path, la_dis, thetha, wheel_distance, out>>
mapVars == <<pre_image, pre_path, pre_trajectory, vis_point_rad, req_path,
             req_trajectory, vis>>

---------------------------------------------------------------------------
(* Bounds *)

MaxBatch == 2
MaxInit == 2
MaxTime == 2
MaxTraj == 2
MaxX == 2
MaxY == 1
MaxPath == 3
MaxLa == 2
MaxWd == 1
MaxI == 1
MaxJ == 1
MaxPts == 2
MaxRad == 1

---------------------------------------------------------------------------
(* Localization node: values *)

None == "None"
KalmanObject == "KalmanFilter"
NoTime == -1
TfException == "TfException"

PoseValues == {"poseA", "poseB"}
Detections == {TfException} \cup PoseValues

RECURSIVE SeqsUpTo(_, _)
SeqsUpTo(S, n) ==
    IF n = 0 THEN {<<>>}
    ELSE LET shorter == SeqsUpTo(S, n - 1)
         IN  shorter \cup {Append(s, x) : s \in {t \in shorter : Len(t) = n - 1}, x \in S}

Messages == SeqsUpTo(Detections, MaxBatch)

\* Number of entries of sequence s equal to v.
Count(s, v) == Cardinality({i \in 1..Len(s) : s[i] = v})

\* tag_callback has not been invoked.
NoCall == [called |-> FALSE, message |-> <<>>, was_none |-> TRUE, ret |-> FALSE,
           pose_estimates |-> <<>>, processed |-> FALSE, z |-> <<>>, dt |-> 0,
           published |-> FALSE, traj_published |-> FALSE,
           at |-> NoTime, since |-> NoTime]

\* The pure_pursuit call has not been made.
NoOut == [called |-> FALSE, raised |-> "none", line |-> 0,
          idx_shortest |-> -1, idx_next |-> -1, returned |-> FALSE,
          r |-> <<0, 0>>, tau |-> <<0, 0>>, first |-> <<0, 0>>, second |-> <<0, 0>>]

\* No visualize_add_* call has been made.
NoVis == [called |-> FALSE, op |-> "none", ret |-> FALSE]

---------------------------------------------------------------------------
(* Localization node: tag_callback *)

\* Lines 59-78: some detection of the message has no transformation.
LookupFails(message) == \E i \in 1..Len(message) : message[i] = TfException

\* Lines 58-74: the pose estimates appended by the loop over the detections,
\* which ends at the first detection without transformation.
PoseEstimates(message) ==
    LET failing == {i \in 1..Len(message) : message[i] = TfException}
        stop == IF failing = {} THEN Len(message) + 1
                ELSE CHOOSE i \in failing : \A k \in failing : i <= k
    IN  SubSeq(message, 1, stop - 1)

\* Lines 94-96: z = pose_estimates[0], then rows i for i in range(2, len).
BuildZ(pose_estimates) ==
    <<pose_estimates[1]>> \o SubSeq(pose_estimates, 3, Len(pose_estimates))

\* Mutant of InitReached: the comparison is strict.
InitReachedStrict(buffer, m) == Len(buffer) > m

\* Line 84: the buffer has reached the configured count.
InitReached(buffer, m) == Len(buffer) >= m

\* Mutant of RejectTick: a READY node answers a tick without pose estimates
\* with a filter step on an empty measurement array and publishes.
RejectTickPredicts(message) ==
    IF kalman = None
    THEN /\ last' = [NoCall EXCEPT !.called = TRUE, !.message = message,
                                   !.was_none = TRUE, !.ret = FALSE]
         /\ UNCHANGED <<kalman, inits, num_init_estimates, last_update_time, traj,
                        now, invoked>>
    ELSE /\ traj < MaxTraj
         /\ last_update_time' = now
         /\ traj' = traj + 1
         /\ last' = [NoCall EXCEPT !.called = TRUE, !.message = message,
                                   !.was_none = FALSE, !.ret = TRUE,
                                   !.processed = TRUE,
                                   !.dt = now - last_update_time,
                                   !.published = TRUE, !.traj_published = TRUE,
                                   !.at = now, !.since = invoked]
         /\ invoked' = now
         /\ UNCHANGED <<kalman, inits, num_init_estimates, now>>

\* Mutant of RejectTick: the pose estimates extracted before the failing
\* lookup are already in the initialization buffer when the tick is rejected.
RejectTickKeepsPartial(message) ==
    /\ last' = [NoCall EXCEPT !.called = TRUE, !.message = message,
                              !.was_none = (kalman = None), !.ret = FALSE,
                              !.pose_estimates = PoseEstimates(message)]
    /\ inits' = IF kalman = None THEN inits \o PoseEstimates(message) ELSE inits
    /\ UNCHANGED <<kalman, num_init_estimates, last_update_time, traj, now, invoked>>

\* Lines 75-80: return False before anything is touched.
RejectTick(message) ==
    /\ last' = [NoCall EXCEPT !.called = TRUE, !.message = message,
                              !.was_none = (kalman = None), !.ret = FALSE,
                              !.pose_estimates = PoseEstimates(message)]
    /\ UNCHANGED <<kalman, inits, num_init_estimates, last_update_time, traj, now,
                   invoked>>

\* Mutant of InitTick: the tick that constructs the filter does not return
\* at line 93 but runs on into the process and publish part.
InitTickFallsThrough(message, pose_estimates) ==
    /\ inits' = inits \o pose_estimates
    /\ IF InitReached(inits', num_init_estimates)
       THEN /\ kalman' = KalmanObject
            /\ last_update_time' = now
            /\ invoked' = now
            /\ traj' = traj + 1
            /\ last' = [NoCall EXCEPT !.called = TRUE, !.message = message,
                                      !.was_none = TRUE, !.ret = TRUE,
                                      !.pose_estimates = pose_estimates,
                                      !.processed = TRUE,
                                      !.z = BuildZ(pose_estimates),
                                      !.published = TRUE, !.traj_published = TRUE]
       ELSE /\ last' = [NoCall EXCEPT !.called = TRUE, !.message = message,
                                      !.was_none = TRUE, !.ret = TRUE,
                                      !.pose_estimates = pose_estimates]
            /\ UNCHANGED <<kalman, last_update_time, traj, invoked>>
    /\ UNCHANGED <<num_init_estimates, now>>

\* Lines 82-93: buffer the estimates, construct the filter once enough are there.
InitTick(message, pose_estimates) ==
    /\ inits' = inits \o pose_estimates
    /\ IF InitReached(inits', num_init_estimates)
       THEN /\ kalman' = KalmanObject
            /\ last_update_time' = now
            /\ invoked' = now
       ELSE UNCHANGED <<kalman, last_update_time, invoked>>
    /\ last' = [NoCall EXCEPT !.called = TRUE, !.message = message,
                              !.was_none = TRUE, !.ret = TRUE,
                              !.pose_estimates = pose_estimates]
    /\ UNCHANGED <<num_init_estimates, traj, now>>

\* Lines 94-119: process the measurements and publish pose and trajectory.
\* d is the time that passes between the clock reads of lines 98 and 99.
ProcessTick(message, pose_estimates) ==
    \E d \in 0..1 :
    /\ now + d <= MaxTime
    /\ traj < MaxTraj
    /\ now' = now + d
    /\ last_update_time' = now'
    /\ traj' = traj + 1
    /\ last' = [NoCall EXCEPT !.called = TRUE, !.message = message,
                              !.was_none = FALSE, !.ret = TRUE,
                              !.pose_estimates = pose_estimates,
                              !.processed = TRUE,
                              !.z = BuildZ(pose_estimates),
                              !.dt = now - last_update_time,
                              !.published = TRUE, !.traj_published = TRUE,
                              !.at = now, !.since = invoked]
    /\ invoked' = now
    /\ UNCHANGED <<kalman, inits, num_init_estimates>>

TagCallback(message) ==
    /\ IF LookupFails(message) \/ Len(PoseEstimates(message)) = 0
       THEN RejectTick(message)
       ELSE IF kalman = None
            THEN InitTick(message, PoseEstimates(message))
            ELSE ProcessTick(message, PoseEstimates(message))
    /\ UNCHANGED ctrlVars
    /\ UNCHANGED mapVars

\* Time passes between two callbacks.
ClockAdvance ==
    /\ now < MaxTime
    /\ now' = now + 1
    /\ UNCHANGED <<kalman, inits, num_init_estimates, last_update_time, traj, last,
                   invoked>>
    /\ UNCHANGED ctrlVars
    /\ UNCHANGED mapVars

\* Lines 20-51: Main.__init__.
Init ==
    /\ kalman = None
    /\ inits = <<>>
    /\ num_init_estimates \in 1..MaxInit
    /\ last_update_time = NoTime
    /\ traj = 0
    /\ now = 0
    /\ last = NoCall
    /\ invoked = NoTime
    /\ pose = <<0, 0>>
    /\ path = <<>>
    /\ la_dis = 1
    /\ thetha = 0
    /\ wheel_distance = 1
    /\ out = NoOut
    /\ pre_image = <<>>
    /\ pre_path = <<>>
    /\ pre_trajectory = <<>>
    /\ vis_point_rad = 1
    /\ req_path = <<>>
    /\ req_trajectory = <<>>
    /\ vis = NoVis

Next ==
    \/ \E message \in Messages : TagCallback(message)
    \/ ClockAdvance

Spec == Init /\ [][Next]_vars

---------------------------------------------------------------------------
(* Pure pursuit controller: goal point selection, controller.py lines 56-68 *)

Grid == {<<x, y>> : x \in 0..MaxX, y \in 0..MaxY}
Paths == SeqsUpTo(Grid, MaxPath) \ {<<>>}

MinOf(S) == CHOOSE m \in S : \A k \in S : m <= k
MaxOf(S) == CHOOSE m \in S : \A k \in S : m >= k

\* cdist(.., 'euclidean') of two points, squared.
SqDist(p, q) == (p[1] - q[1]) * (p[1] - q[1]) + (p[2] - q[2]) * (p[2] - q[2])

\* Line 56: dist_all, by 0-based row.
DistAll(pth, actual) == [i \in 0..(Len(pth) - 1) |-> SqDist(pth[i + 1], actual)]

\* Line 59: the rows np.where finds at the minimum of dist_all.
IdxShortest(pth, actual) ==
    LET dist_all == DistAll(pth, actual)
        least == MinOf({dist_all[i] : i \in DOMAIN dist_all})
    IN  {i \in DOMAIN dist_all : dist_all[i] = least}

\* Line 63: distance of the waypoints from row a on to waypoint a, minus la.
\* The difference of the squares has the sign and the order of the
\* difference of the distances.
DistFromLookahead(pth, a, la) ==
    [j \in 0..(Len(pth) - 1 - a) |-> SqDist(pth[a + j + 1], pth[a + 1]) - la * la]

\* Lines 64-65: the negative entries are overwritten by the maximum.
Remapped(dfl) ==
    LET largest == MaxOf({dfl[j] : j \in DOMAIN dfl})
    IN  [j \in DOMAIN dfl |-> IF dfl[j] < 0 THEN largest ELSE dfl[j]]

\* Line 66: the rows np.where finds at the minimum of the remapped array.
IdxTemp(dfl) ==
    LET least == MinOf({dfl[j] : j \in DOMAIN dfl})
    IN  {j \in DOMAIN dfl : dfl[j] = least}

\* Lines 56-86: int() of an index array that does not hold exactly one
\* element raises TypeError (lines 63 and 67); otherwise a pair is returned.
PurePursuit(actual, pth, la) ==
    LET idx_shortest == IdxShortest(pth, actual)
    IN  IF Cardinality(idx_shortest) # 1
        THEN [NoOut EXCEPT !.called = TRUE, !.raised = "TypeError", !.line = 63]
        ELSE LET a == MinOf(idx_shortest)
                 idx_temp == IdxTemp(Remapped(DistFromLookahead(pth, a, la)))
             IN  IF Cardinality(idx_temp) # 1
                 THEN [NoOut EXCEPT !.called = TRUE, !.raised = "TypeError",
                                    !.line = 67, !.idx_shortest = a]
                 ELSE [NoOut EXCEPT !.called = TRUE, !.idx_shortest = a,
                                    !.idx_next = MinOf(idx_temp) + a,
                                    !.returned = TRUE]

Abs(n) == IF n < 0 THEN -n ELSE n

\* np.cos and np.sin of k quarter turns.
CosQ(k) == CASE k % 4 = 0 -> 1 [] k % 4 = 1 -> 0 [] k % 4 = 2 -> -1 [] OTHER -> 0
SinQ(k) == CASE k % 4 = 0 -> 0 [] k % 4 = 1 -> 1 [] k % 4 = 2 -> 0 [] OTHER -> -1

\* Lines 73-74: sv, from the position to the goal point.
SteeringVector(goal, actual) == <<goal[1] - actual[1], goal[2] - actual[2]>>

\* Lines 76-82: xL = l*sin(al) with al = pi/2 - (ori - a), that is
\* l*cos(ori - a), where l*cos(ori) = sv[0] and l*sin(ori) = |sv[1]|
\* (ori is the arctan2 of the norm of the cross product and the dot product).
XL(sv, a) == sv[1] * CosQ(a) + Abs(sv[2]) * SinQ(a)

\* Lines 76-83: yL = l*cos(al), that is l*sin(ori - a).
YL(sv, a) == Abs(sv[2]) * CosQ(a) - sv[1] * SinQ(a)

\* Line 84: r = xL**2/(2*yL) + yL/2, as one fraction.
Radius(xL, yL) == <<xL * xL + yL * yL, 2 * yL>>

\* Line 85: tau = vel/r, in units of vel.
Tau(r) == <<r[2], r[1]>>

\* Mutant of FirstSpeed: the sign of the steering term is flipped.
FirstSpeedMinus(tau, wd) == <<2 * tau[2] - tau[1] * wd, 2 * tau[2]>>

\* Line 86, first element: vel + 0.5*tau*wheel_distance.
FirstSpeed(tau, wd) == <<2 * tau[2] + tau[1] * wd, 2 * tau[2]>>

\* Line 86, second element: vel - 0.5*tau*wheel_distance.
SecondSpeed(tau, wd) == <<2 * tau[2] - tau[1] * wd, 2 * tau[2]>>

\* Lines 68-86: from the goal point to the returned pair.
Command(sel, actual, a, pth, wd) ==
    IF ~sel.returned THEN sel
    ELSE LET sv == SteeringVector(pth[sel.idx_next + 1], actual)
             r == Radius(XL(sv, a), YL(sv, a))
         IN  [sel EXCEPT !.r = r, !.tau = Tau(r),
                         !.first = FirstSpeed(Tau(r), wd),
                         !.second = SecondSpeed(Tau(r), wd)]

CallPurePursuit ==
    /\ ~out.called
    /\ out' = Command(PurePursuit(pose, path, la_dis), pose, thetha, path,
                      wheel_distance)
    /\ UNCHANGED <<pose, path, la_dis, thetha, wheel_distance>>
    /\ UNCHANGED nodeVars
    /\ UNCHANGED mapVars

InitCtrl ==
    /\ kalman = None
    /\ inits = <<>>
    /\ num_init_estimates = 1
    /\ last_update_time = NoTime
    /\ traj = 0
    /\ now = 0
    /\ last = NoCall
    /\ invoked = NoTime
    /\ pose \in Grid
    /\ path \in Paths
    /\ la_dis \in 1..MaxLa
    /\ thetha \in 0..3
    /\ wheel_distance \in 1..MaxWd
    /\ out = NoOut
    /\ pre_image = <<>>
    /\ pre_path = <<>>
    /\ pre_trajectory = <<>>
    /\ vis_point_rad = 1
    /\ req_path = <<>>
    /\ req_trajectory = <<>>
    /\ vis = NoVis

NextCtrl == CallPurePursuit

SpecCtrl == InitCtrl /\ [][NextCtrl]_vars

---------------------------------------------------------------------------
(* Intersection map: pre-rendered visualization, imap.py *)

\* Lines 25-27, in millimetres.
IMAP_DIS_WHITE == 50
IMAP_DIS_LANE == 220
IMAP_DIS_YELLOW == 25

\* Line 48: the default resolution, millimetres per pixel.
resolution == 5

\* Lines 45-46.
v_trajectory == 21
v_path == 22

\* int() of the quotient a/b of a float division, b > 0: towards zero.
IntDiv(a, b) == IF a >= 0 THEN a \div b ELSE -((-a) \div b)

\* Lines 59-61: s = int((IMAP_DIS_WHITE + IMAP_DIS_YELLOW/2 + IMAP_DIS_LANE)/resolution).
HalfStreet == IntDiv(2 * IMAP_DIS_WHITE + IMAP_DIS_YELLOW + 2 * IMAP_DIS_LANE,
                     2 * resolution)

\* Line 111.
width == 6 * HalfStreet
height == 6 * HalfStreet

\* Line 82.
origin_p == <<3 * HalfStreet, 2 * HalfStreet>>

\* Lines 198-208: u = int(y/resolution + origin_p[0]), v likewise from x.
transform_world_pixel(x, y) ==
    <<IntDiv(y + origin_p[1] * resolution, resolution),
      IntDiv(x + origin_p[2] * resolution, resolution)>>

\* Lines 177-179.
in_map_pixel(u, v) == 0 <= u /\ u < width /\ 0 <= v /\ v < height

\* The world points the model draws paths and trajectories from, in
\* millimetres; all of them lie inside the map, away from its border.
WorldPoints == {<<500 * i, 400 * j>> : i \in 0..MaxI, j \in 0..MaxJ}
PointLists == SeqsUpTo(WorldPoints, MaxPts)

\* Lines 249 and 279: the pixels of the slice [u-r:u+r, v-r:v+r] (u-r and
\* v-r are not negative for the points of the model).
Marker(u, v, r) ==
    {p \in {<<i, j>> : i \in (u - r)..(u + r - 1), j \in (v - r)..(v + r - 1)} :
        in_map_pixel(p[1], p[2])}

\* The pixels painted for a world point.
MarkerOf(point, r) ==
    LET uv == transform_world_pixel(point[1], point[2])
    IN  IF in_map_pixel(uv[1], uv[2]) THEN Marker(uv[1], uv[2], r) ELSE {}

\* Lines 221-225: visualize_init leaves no painted pixel.
visualize_init == <<>>

\* Lines 245-252 and 275-282: every point of the list is painted in turn.
RECURSIVE Paint(_, _, _, _)
Paint(image, points, r, value) ==
    IF points = <<>> THEN image
    ELSE LET block == MarkerOf(Head(points), r)
             painted == [p \in (DOMAIN image) \cup block |->
                            IF p \in block THEN value ELSE image[p]]
         IN  Paint(painted, Tail(points), r, value)

\* Lines 248-252 and 278-282: succeded stays True iff every point is in the map.
AllInMap(points) ==
    \A k \in 1..Len(points) :
        LET uv == transform_world_pixel(points[k][1], points[k][2])
        IN  in_map_pixel(uv[1], uv[2])

\* Lines 235-238 and 265-268: diff, in millimetres.
RECURSIVE Diff(_, _)
Diff(pre, new) ==
    IF new = <<>> THEN 0
    ELSE Abs(Head(pre)[1] - Head(new)[1]) + Abs(Head(pre)[2] - Head(new)[2])
            + Diff(Tail(pre), Tail(new))

\* Lines 234-240 and 264-270: redrawing is skipped (diff < 1.0 metres).
AlreadyDrawn(pre, new) == Len(pre) = Len(new) /\ Diff(pre, new) < 1000

\* Lines 227-255.
visualize_add_path(new) ==
    /\ req_path' = new
    /\ IF AlreadyDrawn(pre_path, new)
       THEN /\ vis' = [called |-> TRUE, op |-> "path", ret |-> TRUE]
            /\ UNCHANGED <<pre_image, pre_path>>
       ELSE /\ pre_image' = Paint(visualize_init, new, vis_point_rad, v_path)
            /\ pre_path' = new
            /\ vis' = [called |-> TRUE, op |-> "path", ret |-> AllInMap(new)]
    /\ UNCHANGED <<pre_trajectory, vis_point_rad, req_trajectory>>
    /\ UNCHANGED nodeVars
    /\ UNCHANGED ctrlVars

\* Lines 257-285.
visualize_add_trajectory(new) ==
    /\ req_trajectory' = new
    /\ IF AlreadyDrawn(pre_trajectory, new)
       THEN /\ vis' = [called |-> TRUE, op |-> "trajectory", ret |-> TRUE]
            /\ UNCHANGED <<pre_image, pre_trajectory>>
       ELSE /\ pre_image' = Paint(visualize_init, new, vis_point_rad, v_trajectory)
            /\ pre_trajectory' = new
            /\ vis' = [called |-> TRUE, op |-> "trajectory", ret |-> AllInMap(new)]
    /\ UNCHANGED <<pre_path, vis_point_rad, req_path>>
    /\ UNCHANGED nodeVars
    /\ UNCHANGED ctrlVars

\* Lines 48-100: IMap.__init__ with a marker radius of at least one pixel.
InitMap ==
    /\ kalman = None
    /\ inits = <<>>
    /\ num_init_estimates = 1
    /\ last_update_time = NoTime
    /\ traj = 0
    /\ now = 0
    /\ last = NoCall
    /\ invoked = NoTime
    /\ pose = <<0, 0>>
    /\ path = <<>>
    /\ la_dis = 1
    /\ thetha = 0
    /\ wheel_distance = 1
    /\ out = NoOut
    /\ pre_image = visualize_init
    /\ pre_path = <<>>
    /\ pre_trajectory = <<>>
    /\ vis_point_rad \in 1..MaxRad
    /\ req_path = <<>>
    /\ req_trajectory = <<>>
    /\ vis = NoVis

NextMap ==
    \/ \E new \in PointLists : visualize_add_path(new)
    \/ \E new \in PointLists : visualize_add_trajectory(new)

SpecMap == InitMap /\ [][NextMap]_vars

---------------------------------------------------------------------------
(* Localization node: properties *)

\* The permutations of a sequence.
Perms(s) ==
    LET n == Len(s)
        bij == {f \in [1..n -> 1..n] : \A i, j \in 1..n : f[i] = f[j] => i = j}
    IN  {[i \in 1..n |-> s[f[i]]] : f \in bij}

\* Two sequences of pose estimates hold the same values the same number of times.
SameBag(s, t) == \A v \in PoseValues : Count(s, v) = Count(t, v)

\* C1: while READY, every pose estimate of a processed batch is included
\* exactly once in the measurement array z handed to kalman.process.
C1_AllObservationsInZ ==
    last.processed => SameBag(last.z, last.pose_estimates)

\* C2: at every tick boundary the filter exists iff the buffer holds at least
\* num_init_estimates individual pose estimates; it is constructed in the very
\* tick in which the buffer first reaches that count, and it never goes away.
C2_ReadyIffCountReached ==
    /\ []((kalman # None) <=> (Len(inits) >= num_init_estimates))
    /\ [][(kalman = None /\ kalman' # None)
            => (Len(inits) < num_init_estimates /\ Len(inits') >= num_init_estimates)]_vars
    /\ [][kalman # None => kalman' # None]_vars

\* C2 witness: with num_init_estimates = 2, a single batch of two pose
\* estimates has constructed the filter.
C2_Witness ==
    /\ kalman # None
    /\ last.called /\ last.was_none
    /\ num_init_estimates = 2
    /\ Len(last.pose_estimates) = 2
    /\ Len(inits) = 2

\* C3: a tick that starts without a filter, the one that constructs it
\* included, neither calls kalman.process nor publishes pose or trajectory;
\* nothing is in the trajectory while there is no filter.
C3_NoOutputWhileUninitialized ==
    /\ (last.called /\ last.was_none)
         => (~last.processed /\ ~last.published /\ ~last.traj_published)
    /\ (kalman = None => traj = 0)

\* C3 witness: the latest tick started without a filter and constructed it.
C3_Witness ==
    /\ last.called /\ last.was_none /\ last.ret
    /\ kalman # None
    /\ traj = 0

C5_NoNonPositiveDt ==
    last.processed => last.dt > 0

\* C6: the measurements handed to kalman.process are the same for every
\* order in which the detections of the batch are listed.
C6_OrderInvariant ==
    last.processed
        => \A p \in Perms(last.pose_estimates) : SameBag(BuildZ(p), last.z)

\* C12: a tick tag_callback rejects (returns False: a lookup failed for
\* some detection, or the batch holds no detection) calls no filter step,
\* publishes nothing and leaves the buffer, the filter, the last update time
\* and the trajectory as they were, whether or not a filter exists and also
\* when earlier detections of the batch were extracted.
C12_RejectedTickAtomic ==
    /\ []((last.called /\ ~last.ret)
            => (~last.processed /\ ~last.published /\ ~last.traj_published))
    /\ [][(last'.called /\ ~last'.ret)
            => UNCHANGED <<kalman, inits, num_init_estimates, last_update_time,
                           traj>>]_vars

\* C12 witness: a tick was rejected after a pose estimate had been extracted
\* from an earlier detection of the batch, with one estimate in the buffer.
C12_Witness ==
    /\ last.called /\ ~last.ret
    /\ Len(last.pose_estimates) >= 1
    /\ kalman = None
    /\ Len(inits) = 1

\* C13: the dt handed to kalman.process is the clock time elapsed since the
\* filter was last called (since its construction for the first call).
C13_DtSinceLastInvocation ==
    last.processed => last.dt = last.at - last.since

---------------------------------------------------------------------------
(* Pure pursuit controller: properties *)

\* The anchor index: the lowest row at minimum distance from the position.
Anchor == MinOf(IdxShortest(path, pose))

\* The rows from the anchor on whose waypoint is at least la_dis away from
\* the anchor waypoint.
Reaching ==
    {i \in Anchor..(Len(path) - 1) :
        SqDist(path[i + 1], path[Anchor + 1]) >= la_dis * la_dis}

\* The lowest row among those of Reaching nearest to the anchor waypoint.
NearestReaching ==
    MinOf({i \in Reaching :
            \A k \in Reaching : SqDist(path[i + 1], path[Anchor + 1])
                                  <= SqDist(path[k + 1], path[Anchor + 1])})

\* C7: when two or more waypoints of a path of at least two are nearest to
\* the position, the lowest of their indices becomes the anchor and the call
\* goes on to return a command.
C7_TieLowestIndex ==
    (out.called /\ Len(path) >= 2 /\ Cardinality(IdxShortest(path, pose)) >= 2)
        => (out.raised = "none" /\ out.idx_shortest = Anchor /\ out.returned)

\* C8: with a unique anchor and some waypoint from the anchor on at least
\* la_dis away from it, the goal is the nearest such waypoint, the lowest
\* index among equals, also when there is exactly one such waypoint.
C8_GoalNearestReaching ==
    (/\ out.called /\ Len(path) >= 2
     /\ Cardinality(IdxShortest(path, pose)) = 1
     /\ Reaching # {})
        => (out.raised = "none" /\ out.idx_next = NearestReaching)

\* C9: when no waypoint from the anchor on is at least la_dis away from it,
\* the goal is the last waypoint of the path (stated for a unique anchor, so
\* that the choice among tied anchors plays no part).
C9_GoalLastWaypoint ==
    (/\ out.called /\ Len(path) >= 2
     /\ Cardinality(IdxShortest(path, pose)) = 1
     /\ Reaching = {})
        => (out.raised = "none" /\ out.idx_next = Len(path) - 1)

\* C10: a call with a path of one waypoint fails with InsufficientPath and
\* returns no pair of wheel speeds.
C10_SingleWaypointRejected ==
    (out.called /\ Len(path) = 1)
        => (out.raised = "InsufficientPath" /\ ~out.returned)

---------------------------------------------------------------------------
(* Intersection map: properties *)

\* The pixels of the markers of a list of points.
MarkersOf(points) ==
    UNION {MarkerOf(points[k], vis_point_rad) : k \in 1..Len(points)}

\* Every marker pixel of the points is painted, with the value given or,
\* where a marker of the other kind lies on top of it, with that other value.
Shows(points, value, others, other_value) ==
    \A p \in MarkersOf(points) :
        /\ p \in DOMAIN pre_image
        /\ \/ pre_image[p] = value
           \/ (pre_image[p] = other_value /\ p \in MarkersOf(others))

\* C14: after every visualize_add_path or visualize_add_trajectory call that
\* returns True the pre-rendered image shows the markers of the path and of
\* the trajectory most recently passed, and of the cached _pre_path and
\* _pre_trajectory.
C14_ImageShowsLatestPathAndTrajectory ==
    (vis.called /\ vis.ret)
        => /\ Shows(req_path, v_path, req_trajectory, v_trajectory)
           /\ Shows(req_trajectory, v_trajectory, req_path, v_path)
           /\ Shows(pre_path, v_path, pre_trajectory, v_trajectory)
           /\ Shows(pre_trajectory, v_trajectory, pre_path, v_path)

====
